---- MODULE Spec2Model ----
(***************************************************************************)
(* A model of avoc's audio paths:                                          *)
(*   - AudioFilter (src/avoc/main.py): the QIODevice that sits between the  *)
(*     audio source and the audio sink and feeds fixed-size blocks to      *)
(*     VoiceChangerManager.change_voice;                                   *)
(*   - the PipeWire loop bridge (src/avoc/audiopipewire.py): on_capture /   *)
(*     on_playback sharing one LoopCtx, run whole or step by step, and     *)
(*     AudioPipeWire's thread beside exit() and setRunning;                *)
(*   - WindowAreaWidget.rearrangeVoiceModelDirs (src/avoc/windowarea.py).   *)
(* Samples are integers: the k-th sample the hardware produces is k (so a   *)
(* lost, duplicated or reordered sample is visible), the converter turns   *)
(* sample k into -(k + 1), silence is Zero and Junk (-1) stands for any    *)
(* bit pattern that was never written (np.empty, memory past the end of an *)
(* array).                                                                 *)
(***************************************************************************)
EXTENDS Integers, Sequences, FiniteSets, TLC

\* ---------------------------------------------------------------- bounds
\* samples the audio source produces in one run
MaxInput == 4
\* samples the audio source hands over in one readyRead
MaxChunk == 2
\* calls of AudioFilter.readData in one run
MaxReads == 2
\* blockSamplesCount of the PipeWire bridge ranges over 1..MaxLoopBlock
MaxLoopBlock == 2
\* on_capture / on_playback calls in one run
MaxCaptures == 2
MaxPlaybacks == 2
\* callbacks the native loop makes in one run of AudioPipeWire's thread
MaxLoopCallbacks == 2
\* AudioPipeWire.exit() calls in one run
MaxExits == 2
\* VoiceChangerManager.setRunning calls in one run
MaxRequests == 2
\* directories of model_dir
MaxDirs == 3
\* rearrangeVoiceModelDirs calls in one run
MaxMoves == 2
\* settings.serverReadChunkSize ranges over 1..MaxReadChunkSize
MaxReadChunkSize == 2
\* samples per unit of serverReadChunkSize (128 in main.py:225, scaled down)
ChunkUnit == 2

\* ------------------------------------------------------ program constants
\* bytes of one "<f4" sample
SampleWidth == 4
\* the value np.zeros fills with
Zero == 0
\* length of np.empty(1) / np.zeros(1)
OneSample == 1

\* ------------------------------------------------------------- sample data
Junk == 0 - 1
\* what an uninitialised float32 may hold: silence by luck, or anything else
Uninit == {Zero, Junk}

Min(a, b) == IF a < b THEN a ELSE b

Zeros(n) == [i \in 1..n |-> Zero]

\* np.ndarray.tobytes of "<f4" samples: byte j of sample v is <<v, j>>
ToBytes(s) ==
  [i \in 1..(SampleWidth * Len(s)) |->
     <<s[((i - 1) \div SampleWidth) + 1], (i - 1) % SampleWidth>>]

\* one float32 read back from SampleWidth bytes: the sample they encode, or
\* garbage when the bytes belong to two different samples
FromGroup(g) ==
  IF \A j \in 1..SampleWidth : g[j] = <<g[1][1], j - 1>> THEN g[1][1] ELSE Junk

\* np.frombuffer(bytes(data), dtype="<f4"), for len(data) a multiple of 4
FromBuffer(data) ==
  [i \in 1..(Len(data) \div SampleWidth) |->
     FromGroup(SubSeq(data, SampleWidth * (i - 1) + 1, SampleWidth * i))]

\* np.frombuffer raises ValueError on any other length
FromBufferRaises(data) == Len(data) % SampleWidth # 0

\* ------------------------------------------------------------ change_voice
\* the failure element of change_voice's result when nothing failed (None);
\* a failure is the pair <<kind, detail>>
NoError == <<>>
ErrorKinds == {"VoiceChangerIsNotSelectedException",
               "PipelineNotInitializedException",
               "Exception"}

\* the exception classes self.vc.on_request may raise: the two change_voice
\* names, and any other subclass of Exception
RaisedClasses == {"VoiceChangerIsNotSelectedException",
                  "PipelineNotInitializedException",
                  "RuntimeError"}

\* a descriptor that names the class of the exception caught
ExceptKindOfClass(cls) == cls

\* the except clause that catches an exception of class cls, as the kind it
\* puts into the descriptor
ExceptKind(cls) ==
  IF cls = "VoiceChangerIsNotSelectedException"
  THEN "VoiceChangerIsNotSelectedException"
  ELSE IF cls = "PipelineNotInitializedException"
       THEN "PipelineNotInitializedException"
       ELSE "Exception"

\* format_exc() of the exception caught
FormatExc(cls) == <<"Traceback", cls>>

\* the activity level of a block: whether any sample of it is not silence
Volume(data) == IF \E i \in 1..Len(data) : data[i] # Zero THEN 1 ELSE 0

\* the [0, 0, 0] timings of pass-through and of a failure
NoTimings == <<0, 0, 0>>

\* the timings self.vc.on_request reports
ConverterTimings == <<1, 1, 1>>

\* the converter's output for a block: the converted samples, cut or
\* repeated to the length the converter chose
Converted(block, len) ==
  [i \in 1..len |-> IF Len(block) = 0 THEN Zero
                    ELSE 0 - (block[((i - 1) % Len(block)) + 1] + 1)]

\* lengths self.vc.on_request may return for a block of n samples
OnRequestLens(n) == {n - 1, n, 2 * n + 1}

\* what self.vc.on_request may do with one block: return audio of some
\* length, or raise an exception
OnRequestOutcomes(n) ==
  [kind : {"ok"}, len : OnRequestLens(n)] \cup [kind : RaisedClasses, len : {0}]

\* the outcomes of one change_voice call
Outcomes(pass, n) ==
  IF pass THEN {[kind |-> "pass", len |-> n]} ELSE OnRequestOutcomes(n)

\* a failure answered with more than one sample of silence
FailureAudioLonger == Zeros(OneSample + 1)

FailureAudio == Zeros(OneSample)

\* VoiceChangerManager.change_voice: the 4-tuple it returns, and whether an
\* exception left it instead (escaped)
change_voice(receivedData, oc) ==
  CASE oc.kind = "pass" ->
         [audio |-> receivedData, vol |-> Volume(receivedData),
          perf |-> NoTimings, err |-> NoError, escaped |-> FALSE]
    [] oc.kind = "ok" ->
         [audio |-> Converted(receivedData, oc.len),
          vol |-> Volume(Converted(receivedData, oc.len)),
          perf |-> ConverterTimings, err |-> NoError, escaped |-> FALSE]
    [] OTHER ->
         [audio |-> FailureAudio, vol |-> Zero, perf |-> NoTimings,
          err |-> <<ExceptKind(oc.kind), FormatExc(oc.kind)>>,
          escaped |-> FALSE]

\* no change_voice call yet
NoOutput == [audio |-> <<>>, vol |-> Zero, perf |-> NoTimings, err |-> NoError,
             escaped |-> FALSE]

\* ============================================================ AudioFilter
VARIABLES
  passThrough         \* settings.passThrough, read by change_voice

VARIABLES
  blockSamplesCount,  \* AudioFilter.blockSamplesCount
  audioInBuff,        \* AudioFilter.audioInBuff, a sequence of samples
  devBuf,             \* bytes pending in AudioFilter.inputDevice
  readyRead,          \* whether the last onReadyRead emitted readyRead
  raised,             \* whether the last readData ended in ValueError
  produced,           \* samples the audio source has written so far
  nReads,             \* readData calls so far
  ctorBuff,           \* audioInBuff as __init__ left it
  taken,              \* history: every byte read from inputDevice
  appended,           \* history: every sample appended to audioInBuff
  calls,              \* history: every change_voice call of readData
  emitted,            \* history: the bytes readData returned, concatenated
  reported            \* history: failure descriptors handed to readData's caller

filterVars == <<blockSamplesCount, audioInBuff, devBuf, readyRead,
                raised, produced, nReads, ctorBuff, taken, appended, calls,
                emitted, reported>>

\* the PipeWire bridge's LoopCtx and its callbacks
VARIABLES
  loopBlock,     \* blockSamplesCount of run()
  buffer,        \* the ctypes float array LoopCtx.buffer_ptr points to
  buffer_size,   \* LoopCtx.buffer_size
  n_samples,     \* LoopCtx.n_samples
  have_data,     \* LoopCtx.have_data
  asserted,      \* whether the last on_capture ended in AssertionError
  nCaptures,     \* on_capture calls so far
  nPlaybacks,    \* on_playback calls so far
  lastOut,       \* history: out_wav and descriptor of the last change_voice call
  played,        \* history: the last on_playback, what it saw and what it output
  loopReported,  \* history: failure descriptors handed on by on_capture
  slotWrite,     \* history: the samples the last completed on_capture stored
  unconsumed,    \* history: completed on_captures since on_playback last read the slot
  nTransforms,   \* history: changeVoice calls made by on_capture
  lastDelivered  \* history: the n_samples the last on_capture was called with

loopVars == <<loopBlock, buffer, buffer_size, n_samples, have_data, asserted,
              nCaptures, nPlaybacks, lastOut, played, loopReported,
              slotWrite, unconsumed, nTransforms, lastDelivered>>

\* AudioPipeWire and its thread, VoiceChangerManager.audio
VARIABLES
  ctl,          \* where the control thread is in AudioPipeWire.exit
  loopHandle,   \* whether AudioPipeWire.loop is not None
  bg,           \* where the background thread is in run()
  running,      \* the native main loop's running flag
  slotLive,     \* whether run()'s buffer and ctx exist
  exits,        \* exit() calls begun
  exitsDone,    \* exit() calls returned
  quitCalls,    \* pfts.main_loop_quit calls
  joinCalls,    \* thread.join calls returned
  audio,        \* VoiceChangerManager.audio: 0 for None, else the Audio object
  audioMade,    \* Audio objects constructed
  lastRequest,  \* history: the argument of the last setRunning
  starts,       \* history: setRunning(True) calls that followed a stopped request
  nRequests     \* setRunning calls so far

lifeVars == <<ctl, loopHandle, bg, running, slotLive, exits, exitsDone,
              quitCalls, joinCalls, audio, audioMade, lastRequest, starts,
              nRequests>>

\* on_capture and on_playback taken step by step, each on a thread of its own
VARIABLES
  capPc,       \* where on_capture is: idle, copy, count, flag
  capOut,      \* on_capture: the memory its memmove reads, out_wav first
  capN,        \* on_capture: its n_samples argument
  capI,        \* on_capture: samples its memmove has moved so far
  pbPc,        \* where on_playback is: idle, count, copy, clear
  pbReq,       \* on_playback: its n_samples argument
  pbN,         \* on_playback: its local n
  pbI,         \* on_playback: samples its memmove has moved so far
  pbOut,       \* on_playback: the output buffer samples
  pbHad,       \* history: whether the last on_playback found have_data set
  bufTag,      \* history: for each cell of buffer, the on_capture that wrote it
  countTag,    \* history: the on_capture that wrote lc.n_samples
  outTag,      \* history: for each output cell, the on_capture its sample is from
  pbCountTag,  \* history: the on_capture whose count on_playback read
  published    \* history: have_data was set while on_playback was reading the slot

raceVars == <<capPc, capOut, capN, capI, pbPc, pbReq, pbN, pbI, pbOut, pbHad,
              bufTag, countTag, outTag, pbCountTag, published>>

\* rearrangeVoiceModelDirs and the directories of model_dir
VARIABLES
  dirs,      \* model_dir: the content of the directory named k, 0 when absent
  tmp,       \* the content of model_dir/_tmp_move, 0 when absent
  mvPc,      \* where rearrangeVoiceModelDirs is: idle, shift
  mvSrc,     \* sourceStart
  mvDst,     \* destinationRow after its adjustment
  mvI,       \* the loop variable i
  mvRow,     \* history: destinationRow as passed
  mvValid,   \* history: whether the last call passed the index checks
  mvFailed,  \* whether the last call ended in an exception
  clash,     \* history: whether a rename or move targeted an existing name
  before,    \* history: dirs when the last call began
  nMoves     \* rearrangeVoiceModelDirs calls so far

dirVars == <<dirs, tmp, mvPc, mvSrc, mvDst, mvI, mvRow, mvValid, mvFailed,
             clash, before, nMoves>>

vars == <<passThrough, filterVars, loopVars, lifeVars, raceVars, dirVars>>

\* the loop leaving a whole block behind
HasFullBlockStrict(buf, n) == Len(buf) > n

\* the while condition of readData
HasFullBlock(buf, n) == Len(buf) >= n

\* the block cut from the newest samples
TakeBlockNewest(buf, n) == SubSeq(buf, Len(buf) - Min(n, Len(buf)) + 1, Len(buf))

\* block = self.audioInBuff[:self.blockSamplesCount]
TakeBlock(buf, n) == SubSeq(buf, 1, Min(n, Len(buf)))

\* self.audioInBuff = self.audioInBuff[self.blockSamplesCount:]
DropBlock(buf, n) == SubSeq(buf, n + 1, Len(buf))

\* how often the while loop of readData runs
RECURSIVE LoopCount(_, _)
LoopCount(buf, n) ==
  IF HasFullBlock(buf, n) THEN 1 + LoopCount(DropBlock(buf, n), n) ELSE 0

\* result = np.append(result, out_wav)
AppendOut(result, out_wav) == result \o out_wav

\* the while loop of readData from its i-th pass on; ocs[i] is what the
\* converter does in pass i
RECURSIVE Drain(_, _, _, _)
Drain(st, n, ocs, i) ==
  IF ~HasFullBlock(st.buf, n) THEN st
  ELSE LET block == TakeBlock(st.buf, n)
           r     == change_voice(block, ocs[i])
       IN  Drain([buf    |-> DropBlock(st.buf, n),
                  result |-> AppendOut(st.result, r.audio),
                  calls  |-> Append(st.calls,
                                    [before |-> st.buf, block |-> block,
                                     audio  |-> r.audio, err |-> r.err,
                                     oc |-> ocs[i], ret |-> r,
                                     acc |-> Len(st.result)])],
                 n, ocs, i + 1)

\* availability without the rounding to whole blocks
bytesAvailableUnrounded(buf, inputBytes, n) == Len(buf) + inputBytes

\* AudioFilter.bytesAvailable
bytesAvailable(buf, inputBytes, n) ==
  LET srcBytesCount == Len(buf) + inputBytes
  IN  srcBytesCount - (srcBytesCount % (n * SampleWidth))

\* what readData hands to its caller: the bytes of result, and no descriptor
ReadDataReturn(result, errs) == [bytes |-> ToBytes(result), errors |-> <<>>]

\* AudioFilter.__init__ (called by Audio.__init__ from setRunning)
InitFilter ==
  /\ blockSamplesCount \in {c * ChunkUnit : c \in 1..MaxReadChunkSize}
  /\ \E g \in Uninit : /\ audioInBuff = [i \in 1..OneSample |-> g]
                       /\ ctorBuff = [i \in 1..OneSample |-> g]
  /\ devBuf = <<>>
  /\ readyRead = FALSE
  /\ raised = FALSE
  /\ produced = 0
  /\ nReads = 0
  /\ taken = <<>>
  /\ appended = <<>>
  /\ calls = <<>>
  /\ emitted = <<>>
  /\ reported = <<>>

\* the audio source writes k whole samples into inputDevice and signals
\* readyRead, which runs AudioFilter.onReadyRead
SourceWrite ==
  \E k \in 1..MaxChunk :
    /\ produced + k <= MaxInput
    /\ devBuf' = devBuf \o ToBytes([i \in 1..k |-> produced + i])
    /\ produced' = produced + k
    /\ readyRead' = (bytesAvailable(audioInBuff, Len(devBuf'), blockSamplesCount) # 0)
    /\ UNCHANGED <<blockSamplesCount, audioInBuff, raised, nReads,
                   ctorBuff, taken, appended, calls, emitted, reported>>
    /\ UNCHANGED <<passThrough, loopVars, lifeVars, raceVars, dirVars>>

\* the lengths the sink asks readData for: whole samples and half samples
ReadLens == {k * (SampleWidth \div 2) : k \in 0..(2 * MaxInput)}

\* the history record of a change_voice call, with whether the bytes of
\* result had reached the maxlen of the readData that made it
CallOfRead(c, maxlen) ==
  [before |-> c.before, block |-> c.block, audio |-> c.audio, err |-> c.err,
   oc |-> c.oc, ret |-> c.ret, acc |-> c.acc,
   full |-> SampleWidth * c.acc >= maxlen]

\* AudioFilter.readData(maxlen)
readData ==
  \E maxlen \in ReadLens :
    LET data == SubSeq(devBuf, 1, Min(maxlen, Len(devBuf)))
    IN  /\ nReads < MaxReads
        /\ nReads' = nReads + 1
        /\ devBuf' = SubSeq(devBuf, Len(data) + 1, Len(devBuf))
        /\ taken' = taken \o data
        /\ UNCHANGED <<blockSamplesCount, readyRead, produced, ctorBuff>>
        /\ UNCHANGED <<passThrough, loopVars, lifeVars, raceVars, dirVars>>
        /\ IF FromBufferRaises(data)
           THEN /\ raised' = TRUE
                /\ UNCHANGED <<audioInBuff, appended, calls, emitted, reported>>
           ELSE \E g \in Uninit :
                  LET fresh == FromBuffer(data)
                      buf   == audioInBuff \o fresh
                  IN  \E ocs \in [1..LoopCount(buf, blockSamplesCount) ->
                                    Outcomes(passThrough, blockSamplesCount)] :
                        LET st  == Drain([buf |-> buf,
                                          result |-> [i \in 1..OneSample |-> g],
                                          calls |-> <<>>],
                                         blockSamplesCount, ocs, 1)
                            ret == ReadDataReturn(st.result,
                                                  [i \in 1..Len(st.calls) |-> st.calls[i].err])
                        IN  /\ raised' = FALSE
                            /\ audioInBuff' = st.buf
                            /\ appended' = appended \o fresh
                            /\ calls' = calls \o
                                 [i \in 1..Len(st.calls) |->
                                    CallOfRead(st.calls[i], maxlen)]
                            /\ emitted' = emitted \o ret.bytes
                            /\ reported' = reported \o ret.errors

\* no AudioFilter exists
NoFilter ==
  /\ blockSamplesCount = 0
  /\ audioInBuff = <<>>
  /\ ctorBuff = <<>>
  /\ devBuf = <<>>
  /\ readyRead = FALSE
  /\ raised = FALSE
  /\ produced = 0
  /\ nReads = 0
  /\ taken = <<>>
  /\ appended = <<>>
  /\ calls = <<>>
  /\ emitted = <<>>
  /\ reported = <<>>

\* ===================================================== the PipeWire bridge
\* sample counts the native loop may hand to a callback
DeliveredCounts(n) == {c \in {n - 1, n, n + 1} : c >= 1}

\* the first count elements of the memory that starts at array src: the
\* array's own elements, then whatever lies behind it
MemRead(src, count, behind) ==
  [i \in 1..count |-> IF i <= Len(src) THEN src[i] ELSE behind[i]]

\* memmove(dst, src, count * fsize) into a destination holding dst
MemMove(dst, src, count, behind) ==
  LET mem == MemRead(src, count, behind)
  IN  [i \in 1..Len(dst) |-> IF i <= count THEN mem[i] ELSE dst[i]]

\* the samples on_capture copies out of out_wav: n_samples * fsize bytes
CopyCount(delivered, out_wav) == delivered

\* lc.n_samples = n_samples
RecordedCount(delivered, out_wav) == delivered

\* the slot keeping the block it holds while have_data is set
StoreBlockIfFree(buf, have, out_wav, count, behind) ==
  IF have # 0 THEN buf ELSE MemMove(buf, out_wav, count, behind)

\* npmemmove(lc.buffer_ptr, out_wav, n_samples * fsize): the slot afterwards,
\* whatever have_data was
StoreBlock(buf, have, out_wav, count, behind) ==
  MemMove(buf, out_wav, count, behind)

\* lc.have_data = 1
SetFlag == 1

\* have_data left set
KeptFlag == 0 + 1

\* a playback that marks the slot as read with a further flag value
ReadMark == 1 + 1

\* lc.have_data = 0
ClearedFlag == 0

\* as many samples as were asked for, whatever the slot holds
PlaybackCountAsked(req, valid) == req

\* n = min(n_samples, lc.n_samples)
PlaybackCount(req, valid) == Min(req, valid)

\* on_playback with have_data set: the output buffer afterwards
PlaybackCopy(samples, buf, req, valid) ==
  MemMove(samples, buf, PlaybackCount(req, valid), buf)

\* the silence one sample short of the request
PlaybackSilenceShort(samples, req) ==
  MemMove(samples, Zeros(req), req - 1, Zeros(req))

\* on_playback without have_data: the output buffer afterwards
PlaybackSilence(samples, req) == MemMove(samples, Zeros(req), req, Zeros(req))

\* what on_capture hands on besides the slot: nothing
CaptureReturn(err) == <<>>

\* the record of an on_playback: the request, have_data and lc.n_samples at
\* entry, the output buffer before and after, the samples read from the slot
\* (n), and at entry: the last change_voice result (src, err), the last
\* block stored (slot) and the blocks stored but not yet read (caps)
NoPlayback == [valid |-> FALSE, had |-> FALSE, req |-> 0, out |-> <<>>,
               src |-> <<>>, count |-> 0, before |-> <<>>, n |-> 0,
               err |-> NoError, slot |-> <<>>, caps |-> 0]

\* run(): the LoopCtx before main_loop_run
InitLoop ==
  /\ loopBlock \in 1..MaxLoopBlock
  /\ buffer_size = loopBlock * 2
  /\ buffer = Zeros(buffer_size)
  /\ n_samples = 0
  /\ have_data = 0
  /\ asserted = FALSE
  /\ nCaptures = 0
  /\ nPlaybacks = 0
  /\ lastOut = NoOutput
  /\ played = NoPlayback
  /\ loopReported = <<>>
  /\ slotWrite = <<>>
  /\ unconsumed = 0
  /\ nTransforms = 0
  /\ lastDelivered = 0

\* no AudioPipeWire exists
NoLoop ==
  /\ loopBlock = 0
  /\ buffer_size = 0
  /\ buffer = <<>>
  /\ n_samples = 0
  /\ have_data = 0
  /\ asserted = FALSE
  /\ nCaptures = 0
  /\ nPlaybacks = 0
  /\ lastOut = NoOutput
  /\ played = NoPlayback
  /\ loopReported = <<>>
  /\ slotWrite = <<>>
  /\ unconsumed = 0
  /\ nTransforms = 0
  /\ lastDelivered = 0

\* a callback that takes whatever count it is given
AssertSkipped(delivered, n) == TRUE

\* assert n_samples == blockSamplesCount
AssertHolds(delivered, n) == delivered = n

\* on_capture(c_ctx, samples, n_samples), run as a whole
on_capture ==
  \E delivered \in DeliveredCounts(loopBlock) :
    /\ nCaptures < MaxCaptures
    /\ nCaptures' = nCaptures + 1
    /\ lastDelivered' = delivered
    /\ UNCHANGED <<loopBlock, buffer_size, nPlaybacks, played>>
    /\ UNCHANGED <<passThrough, filterVars, lifeVars, raceVars, dirVars>>
    /\ IF ~AssertHolds(delivered, loopBlock)
       THEN /\ asserted' = TRUE
            /\ UNCHANGED <<buffer, n_samples, have_data, lastOut, loopReported,
                           slotWrite, unconsumed, nTransforms>>
       ELSE \E oc \in Outcomes(passThrough, delivered) :
              LET audioIn == [i \in 1..delivered |-> nCaptures * loopBlock + i]
                  r       == change_voice(audioIn, oc)
                  count   == CopyCount(delivered, r.audio)
              IN  \E behind \in [(Len(r.audio) + 1)..count -> Uninit] :
                  /\ asserted' = FALSE
                  /\ buffer' = StoreBlock(buffer, have_data, r.audio, count, behind)
                  /\ n_samples' = RecordedCount(delivered, r.audio)
                  /\ have_data' = SetFlag
                  /\ lastOut' = r
                  /\ loopReported' = loopReported \o CaptureReturn(r.err)
                  /\ slotWrite' = MemRead(r.audio, count, behind)
                  /\ unconsumed' = unconsumed + 1
                  /\ nTransforms' = nTransforms + 1

\* what the output buffer of req samples may hold when on_playback is
\* entered: silence, or samples of an earlier cycle
StaleBuffers(req) == {[i \in 1..req |-> g] : g \in Uninit}

\* on_playback(c_ctx, samples, n_samples), run as a whole; stale is what the
\* output buffer holds when the callback is entered
on_playback ==
  \E req \in DeliveredCounts(loopBlock) :
  \E stale \in StaleBuffers(req) :
    /\ nPlaybacks < MaxPlaybacks
    /\ nPlaybacks' = nPlaybacks + 1
    /\ UNCHANGED <<loopBlock, buffer_size, buffer, n_samples, asserted,
                   nCaptures, lastOut, loopReported, slotWrite, nTransforms,
                   lastDelivered>>
    /\ UNCHANGED <<passThrough, filterVars, lifeVars, raceVars, dirVars>>
    /\ IF have_data # 0
       THEN /\ have_data' = ClearedFlag
            /\ unconsumed' = 0
            /\ played' = [valid |-> TRUE, had |-> TRUE, req |-> req,
                          out |-> PlaybackCopy(stale, buffer, req, n_samples),
                          src |-> lastOut.audio, count |-> n_samples,
                          before |-> stale,
                          n |-> PlaybackCount(req, n_samples),
                          err |-> lastOut.err, slot |-> slotWrite,
                          caps |-> unconsumed]
       ELSE /\ have_data' = have_data
            /\ unconsumed' = unconsumed
            /\ played' = [valid |-> TRUE, had |-> FALSE, req |-> req,
                          out |-> PlaybackSilence(stale, req),
                          src |-> lastOut.audio, count |-> n_samples,
                          before |-> stale, n |-> 0,
                          err |-> lastOut.err, slot |-> slotWrite,
                          caps |-> unconsumed]

\* ================================= the callbacks on threads of their own
\* no callback is in progress
IdleCallbacks ==
  /\ capPc = "idle"
  /\ capOut = <<>>
  /\ capN = 0
  /\ capI = 0
  /\ pbPc = "idle"
  /\ pbReq = 0
  /\ pbN = 0
  /\ pbI = 0
  /\ pbOut = <<>>
  /\ pbHad = FALSE
  /\ bufTag = [i \in 1..buffer_size |-> 0]
  /\ countTag = 0
  /\ outTag = <<>>
  /\ pbCountTag = 0
  /\ published = FALSE

\* on_capture up to its memmove: the cast, the assert, the changeVoice call;
\* capOut is the memory the memmove is going to read
CapBegin ==
  \E delivered \in DeliveredCounts(loopBlock) :
    /\ capPc = "idle"
    /\ nCaptures < MaxCaptures
    /\ nCaptures' = nCaptures + 1
    /\ lastDelivered' = delivered
    /\ UNCHANGED <<loopBlock, buffer_size, buffer, n_samples, have_data,
                   nPlaybacks, played, loopReported, slotWrite, unconsumed>>
    /\ UNCHANGED <<pbPc, pbReq, pbN, pbI, pbOut, pbHad, bufTag, countTag,
                   outTag, pbCountTag, published>>
    /\ UNCHANGED <<passThrough, filterVars, lifeVars, dirVars>>
    /\ IF ~AssertHolds(delivered, loopBlock)
       THEN /\ asserted' = TRUE
            /\ UNCHANGED <<capPc, capOut, capN, capI, lastOut, nTransforms>>
       ELSE \E oc \in Outcomes(passThrough, delivered) :
              LET audioIn == [i \in 1..delivered |-> nCaptures * loopBlock + i]
                  r       == change_voice(audioIn, oc)
                  count   == CopyCount(delivered, r.audio)
              IN  \E behind \in [(Len(r.audio) + 1)..count -> Uninit] :
                  /\ asserted' = FALSE
                  /\ lastOut' = r
                  /\ nTransforms' = nTransforms + 1
                  /\ capOut' = MemRead(r.audio, count, behind)
                  /\ capN' = delivered
                  /\ capI' = 0
                  /\ capPc' = "copy"

\* npmemmove(lc.buffer_ptr, out_wav, n_samples * fsize) moves its next sample
CapCopy ==
  /\ capPc = "copy"
  /\ buffer' = [buffer EXCEPT ![capI + 1] = capOut[capI + 1]]
  /\ bufTag' = [bufTag EXCEPT ![capI + 1] = nCaptures]
  /\ capI' = capI + 1
  /\ capPc' = IF capI + 1 = Len(capOut) THEN "count" ELSE "copy"
  /\ UNCHANGED <<loopBlock, buffer_size, n_samples, have_data, asserted,
                 nCaptures, nPlaybacks, lastOut, played, loopReported,
                 slotWrite, unconsumed, nTransforms, lastDelivered>>
  /\ UNCHANGED <<capOut, capN, pbPc, pbReq, pbN, pbI, pbOut, pbHad, countTag,
                 outTag, pbCountTag, published>>
  /\ UNCHANGED <<passThrough, filterVars, lifeVars, dirVars>>

\* lc.n_samples = n_samples
CapCount ==
  /\ capPc = "count"
  /\ n_samples' = RecordedCount(capN, capOut)
  /\ countTag' = nCaptures
  /\ capPc' = "flag"
  /\ UNCHANGED <<loopBlock, buffer_size, buffer, have_data, asserted,
                 nCaptures, nPlaybacks, lastOut, played, loopReported,
                 slotWrite, unconsumed, nTransforms, lastDelivered>>
  /\ UNCHANGED <<capOut, capN, capI, pbPc, pbReq, pbN, pbI, pbOut, pbHad,
                 bufTag, outTag, pbCountTag, published>>
  /\ UNCHANGED <<passThrough, filterVars, lifeVars, dirVars>>

\* lc.have_data = 1; on_capture returns
CapFlag ==
  /\ capPc = "flag"
  /\ have_data' = SetFlag
  /\ capPc' = "idle"
  /\ published' = (published \/ pbPc # "idle")
  /\ slotWrite' = capOut
  /\ unconsumed' = unconsumed + 1
  /\ loopReported' = loopReported \o CaptureReturn(lastOut.err)
  /\ UNCHANGED <<loopBlock, buffer_size, buffer, n_samples, asserted,
                 nCaptures, nPlaybacks, lastOut, played, nTransforms,
                 lastDelivered>>
  /\ UNCHANGED <<capOut, capN, capI, pbPc, pbReq, pbN, pbI, pbOut, pbHad,
                 bufTag, countTag, outTag, pbCountTag>>
  /\ UNCHANGED <<passThrough, filterVars, lifeVars, dirVars>>

\* on_playback up to its test of lc.have_data; without data it fills the
\* output with zeros and returns
PbBegin ==
  \E req \in DeliveredCounts(loopBlock) :
  \E stale \in StaleBuffers(req) :
    /\ pbPc = "idle"
    /\ nPlaybacks < MaxPlaybacks
    /\ nPlaybacks' = nPlaybacks + 1
    /\ pbReq' = req
    /\ pbN' = 0
    /\ pbI' = 0
    /\ outTag' = [i \in 1..req |-> 0]
    /\ pbCountTag' = 0
    /\ published' = FALSE
    /\ IF have_data # 0
       THEN pbHad' = TRUE /\ pbPc' = "count" /\ pbOut' = stale
       ELSE pbHad' = FALSE /\ pbPc' = "idle"
            /\ pbOut' = PlaybackSilence(stale, req)
    /\ UNCHANGED <<loopBlock, buffer_size, buffer, n_samples, have_data,
                   asserted, nCaptures, lastOut, played, loopReported,
                   slotWrite, unconsumed, nTransforms, lastDelivered>>
    /\ UNCHANGED <<capPc, capOut, capN, capI, bufTag, countTag>>
    /\ UNCHANGED <<passThrough, filterVars, lifeVars, dirVars>>

\* n = min(n_samples, lc.n_samples)
PbCount ==
  /\ pbPc = "count"
  /\ pbN' = PlaybackCount(pbReq, n_samples)
  /\ pbCountTag' = countTag
  /\ pbPc' = IF PlaybackCount(pbReq, n_samples) = 0 THEN "clear" ELSE "copy"
  /\ UNCHANGED loopVars
  /\ UNCHANGED <<capPc, capOut, capN, capI, pbReq, pbI, pbOut, pbHad, bufTag,
                 countTag, outTag, published>>
  /\ UNCHANGED <<passThrough, filterVars, lifeVars, dirVars>>

\* ctypes.memmove(samples, lc.buffer_ptr, n * fsize) moves its next sample
PbCopy ==
  /\ pbPc = "copy"
  /\ pbOut' = [pbOut EXCEPT ![pbI + 1] = buffer[pbI + 1]]
  /\ outTag' = [outTag EXCEPT ![pbI + 1] = bufTag[pbI + 1]]
  /\ pbI' = pbI + 1
  /\ pbPc' = IF pbI + 1 = pbN THEN "clear" ELSE "copy"
  /\ UNCHANGED loopVars
  /\ UNCHANGED <<capPc, capOut, capN, capI, pbReq, pbN, pbHad, bufTag,
                 countTag, pbCountTag, published>>
  /\ UNCHANGED <<passThrough, filterVars, lifeVars, dirVars>>

\* lc.have_data = 0; on_playback returns
PbClear ==
  /\ pbPc = "clear"
  /\ have_data' = ClearedFlag
  /\ unconsumed' = 0
  /\ pbPc' = "idle"
  /\ UNCHANGED <<loopBlock, buffer_size, buffer, n_samples, asserted,
                 nCaptures, nPlaybacks, lastOut, played, loopReported,
                 slotWrite, nTransforms, lastDelivered>>
  /\ UNCHANGED <<capPc, capOut, capN, capI, pbReq, pbN, pbI, pbOut, pbHad,
                 bufTag, countTag, outTag, pbCountTag, published>>
  /\ UNCHANGED <<passThrough, filterVars, lifeVars, dirVars>>

\* ============================================ AudioPipeWire, setRunning
\* no AudioPipeWire and no Audio exist
NoLife ==
  /\ ctl = "ready"
  /\ loopHandle = FALSE
  /\ bg = "done"
  /\ running = FALSE
  /\ slotLive = FALSE
  /\ exits = 0
  /\ exitsDone = 0
  /\ quitCalls = 0
  /\ joinCalls = 0
  /\ audio = 0
  /\ audioMade = 0
  /\ lastRequest = FALSE
  /\ starts = 0
  /\ nRequests = 0

\* AudioPipeWire.__init__ has returned (the loop exists, the thread has been
\* started and has not run yet) beside a VoiceChangerManager that is stopped
InitLife ==
  /\ ctl = "ready"
  /\ loopHandle = TRUE
  /\ bg = "starting"
  /\ running = FALSE
  /\ slotLive = FALSE
  /\ exits = 0
  /\ exitsDone = 0
  /\ quitCalls = 0
  /\ joinCalls = 0
  /\ audio = 0
  /\ audioMade = 0
  /\ lastRequest = FALSE
  /\ starts = 0
  /\ nRequests = 0

\* run(): the buffer and the LoopCtx are allocated, the callbacks defined
RunSetup ==
  /\ bg = "starting"
  /\ bg' = "setup"
  /\ slotLive' = TRUE
  /\ UNCHANGED <<ctl, loopHandle, running, exits, exitsDone, quitCalls,
                 joinCalls, audio, audioMade, lastRequest, starts, nRequests>>
  /\ UNCHANGED <<passThrough, filterVars, loopVars, raceVars, dirVars>>

\* pfts.main_loop_run is entered: the native main loop marks itself running
RunEnter ==
  /\ bg = "setup"
  /\ bg' = "looping"
  /\ running' = TRUE
  /\ UNCHANGED <<ctl, loopHandle, slotLive, exits, exitsDone, quitCalls,
                 joinCalls, audio, audioMade, lastRequest, starts, nRequests>>
  /\ UNCHANGED <<passThrough, filterVars, loopVars, raceVars, dirVars>>

\* one iteration of the native main loop: it invokes a callback
LoopIterate ==
  /\ bg = "looping"
  /\ running
  /\ nCaptures + nPlaybacks < MaxLoopCallbacks
  /\ (on_capture \/ on_playback)

\* the native main loop finds its running flag cleared; main_loop_run returns
LoopReturn ==
  /\ bg = "looping"
  /\ ~running
  /\ bg' = "deinit"
  /\ UNCHANGED <<ctl, loopHandle, running, slotLive, exits, exitsDone,
                 quitCalls, joinCalls, audio, audioMade, lastRequest, starts,
                 nRequests>>
  /\ UNCHANGED <<passThrough, filterVars, loopVars, raceVars, dirVars>>

\* pfts.deinit(); run() returns, its locals go, the thread ends
RunReturn ==
  /\ bg = "deinit"
  /\ bg' = "done"
  /\ slotLive' = FALSE
  /\ UNCHANGED <<ctl, loopHandle, running, exits, exitsDone, quitCalls,
                 joinCalls, audio, audioMade, lastRequest, starts, nRequests>>
  /\ UNCHANGED <<passThrough, filterVars, loopVars, raceVars, dirVars>>

\* if self.loop is not None
ExitGuard(handle) == handle

\* AudioPipeWire.exit() is called; it returns at once when self.loop is None
ExitBegin ==
  /\ ctl = "ready"
  /\ exits < MaxExits
  /\ exits' = exits + 1
  /\ IF ExitGuard(loopHandle)
     THEN ctl' = "quit" /\ exitsDone' = exitsDone
     ELSE ctl' = "ready" /\ exitsDone' = exitsDone + 1
  /\ UNCHANGED <<loopHandle, bg, running, slotLive, quitCalls, joinCalls,
                 audio, audioMade, lastRequest, starts, nRequests>>
  /\ UNCHANGED <<passThrough, filterVars, loopVars, raceVars, dirVars>>

\* pfts.main_loop_quit(self.loop): the running flag is cleared
ExitQuit ==
  /\ ctl = "quit"
  /\ ctl' = "join"
  /\ running' = FALSE
  /\ quitCalls' = quitCalls + 1
  /\ UNCHANGED <<loopHandle, bg, slotLive, exits, exitsDone, joinCalls,
                 audio, audioMade, lastRequest, starts, nRequests>>
  /\ UNCHANGED <<passThrough, filterVars, loopVars, raceVars, dirVars>>

\* a join that does not wait
JoinReturnsAtOnce(thread) == TRUE

\* self.thread.join() returns once the thread has ended
JoinReturns(thread) == thread = "done"

\* self.thread.join() returns; self.loop = None; exit() returns
ExitJoin ==
  /\ ctl = "join"
  /\ JoinReturns(bg)
  /\ ctl' = "ready"
  /\ loopHandle' = FALSE
  /\ joinCalls' = joinCalls + 1
  /\ exitsDone' = exitsDone + 1
  /\ UNCHANGED <<bg, running, slotLive, exits, quitCalls, audio, audioMade,
                 lastRequest, starts, nRequests>>
  /\ UNCHANGED <<passThrough, filterVars, loopVars, raceVars, dirVars>>

\* setRunning treating every request as a change
SameStateNever(current, wanted) == FALSE

\* if (self.audio is not None) == running: return
SameState(current, wanted) == (current # 0) = wanted

\* VoiceChangerManager.setRunning(running): Audio(...) constructs the
\* AudioFilter, self.audio = None drops it
setRunning ==
  \E wanted \in BOOLEAN :
    /\ nRequests < MaxRequests
    /\ nRequests' = nRequests + 1
    /\ lastRequest' = wanted
    /\ starts' = IF wanted /\ ~lastRequest THEN starts + 1 ELSE starts
    /\ UNCHANGED <<ctl, loopHandle, bg, running, slotLive, exits, exitsDone,
                   quitCalls, joinCalls>>
    /\ UNCHANGED <<passThrough, loopVars, raceVars, dirVars>>
    /\ UNCHANGED <<devBuf, readyRead, raised, produced, nReads, taken,
                   appended, calls, emitted, reported>>
    /\ IF SameState(audio, wanted)
       THEN UNCHANGED <<audio, audioMade, blockSamplesCount, audioInBuff,
                        ctorBuff>>
       ELSE IF wanted
            THEN /\ audio' = audioMade + 1
                 /\ audioMade' = audioMade + 1
                 /\ blockSamplesCount' \in
                      {c * ChunkUnit : c \in 1..MaxReadChunkSize}
                 /\ \E g \in Uninit :
                      /\ audioInBuff' = [i \in 1..OneSample |-> g]
                      /\ ctorBuff' = [i \in 1..OneSample |-> g]
            ELSE /\ audio' = 0
                 /\ audioMade' = audioMade
                 /\ blockSamplesCount' = 0
                 /\ audioInBuff' = <<>>
                 /\ ctorBuff' = <<>>

\* ============================================== rearrangeVoiceModelDirs
\* the names a directory of model_dir may have: str(k) for k in Names
Names == 0..MaxDirs

\* the directories os.listdir finds whose names are digits
Listed(fs) == {k \in Names : fs[k] # 0}

\* total = len(dirs)
Total(fs) == Cardinality(Listed(fs))

\* model_dir holding directories 0..total-1, directory k with content k + 1
InitDirs ==
  /\ \E total \in 0..MaxDirs :
       dirs = [k \in Names |-> IF k < total THEN k + 1 ELSE 0]
  /\ tmp = 0
  /\ mvPc = "idle"
  /\ mvSrc = 0
  /\ mvDst = 0
  /\ mvI = 0
  /\ mvRow = 0
  /\ mvValid = FALSE
  /\ mvFailed = FALSE
  /\ clash = FALSE
  /\ before = dirs
  /\ nMoves = 0

\* no model_dir is looked at
NoDirs ==
  /\ dirs = [k \in Names |-> 0]
  /\ tmp = 0
  /\ mvPc = "idle"
  /\ mvSrc = 0
  /\ mvDst = 0
  /\ mvI = 0
  /\ mvRow = 0
  /\ mvValid = FALSE
  /\ mvFailed = FALSE
  /\ clash = FALSE
  /\ before = dirs
  /\ nMoves = 0

\* the index checks of rearrangeVoiceModelDirs
ValidIndices(sourceStart, destinationRow, total) ==
  /\ 0 <= sourceStart /\ sourceStart < total
  /\ 0 <= destinationRow /\ destinationRow <= total

\* a destination taken as passed
DestinationAsPassed(sourceStart, destinationRow) == destinationRow

\* if destinationRow > sourceStart: destinationRow -= 1
DestinationIndex(sourceStart, destinationRow) ==
  IF destinationRow > sourceStart THEN destinationRow - 1 ELSE destinationRow

\* where the renumbering loop starts
FirstShift(sourceStart, destination) ==
  IF sourceStart < destination THEN sourceStart + 1 ELSE sourceStart - 1

\* whether the renumbering loop has a further i
ShiftLeft(sourceStart, destination, i) ==
  IF sourceStart < destination THEN i <= destination ELSE i >= destination

\* the name directory i is renamed to
ShiftTarget(sourceStart, destination, i) ==
  IF sourceStart < destination THEN i - 1 ELSE i + 1

\* the loop's next i
ShiftNext(sourceStart, destination, i) ==
  IF sourceStart < destination THEN i + 1 ELSE i - 1

\* rearrangeVoiceModelDirs is called: the checks, the listing, and the move
\* of the source directory to _tmp_move
MoveBegin ==
  \E sourceStart \in (0 - 1)..MaxDirs :
  \E sourceEnd \in {sourceStart, sourceStart + 1} :
  \E destinationRow \in (0 - 1)..(MaxDirs + 1) :
    /\ mvPc = "idle"
    /\ nMoves < MaxMoves
    /\ nMoves' = nMoves + 1
    /\ before' = dirs
    /\ mvSrc' = sourceStart
    /\ mvRow' = destinationRow
    /\ UNCHANGED <<passThrough, filterVars, loopVars, lifeVars, raceVars>>
    /\ IF sourceStart # sourceEnd
          \/ ~ValidIndices(sourceStart, destinationRow, Total(dirs))
       THEN /\ mvValid' = FALSE
            /\ mvFailed' = TRUE
            /\ UNCHANGED <<dirs, tmp, mvPc, mvDst, mvI, clash>>
       ELSE /\ mvValid' = TRUE
            /\ mvDst' = DestinationIndex(sourceStart, destinationRow)
            /\ IF dirs[sourceStart] = 0
               THEN /\ mvFailed' = TRUE
                    /\ UNCHANGED <<dirs, tmp, mvPc, mvI, clash>>
               ELSE /\ mvFailed' = FALSE
                    /\ dirs' = [dirs EXCEPT ![sourceStart] = 0]
                    /\ tmp' = IF tmp = 0 THEN dirs[sourceStart] ELSE tmp
                    /\ clash' = (clash \/ tmp # 0)
                    /\ mvI' = FirstShift(sourceStart, mvDst')
                    /\ mvPc' = "shift"

\* one pass of the renumbering loop: os.rename(str(i), str(i -+ 1)), which
\* raises when the source is missing or the target exists
ShiftStep ==
  /\ mvPc = "shift"
  /\ ShiftLeft(mvSrc, mvDst, mvI)
  /\ UNCHANGED <<passThrough, filterVars, loopVars, lifeVars, raceVars>>
  /\ UNCHANGED <<tmp, mvSrc, mvDst, mvRow, mvValid, before, nMoves>>
  /\ LET target == ShiftTarget(mvSrc, mvDst, mvI)
     IN  IF mvI \notin Names \/ target \notin Names
         THEN /\ mvFailed' = TRUE /\ mvPc' = "idle"
              /\ UNCHANGED <<dirs, mvI, clash>>
         ELSE IF dirs[mvI] = 0 \/ dirs[target] # 0
         THEN /\ mvFailed' = TRUE /\ mvPc' = "idle"
              /\ clash' = (clash \/ dirs[target] # 0)
              /\ UNCHANGED <<dirs, mvI>>
         ELSE /\ dirs' = [dirs EXCEPT ![target] = dirs[mvI], ![mvI] = 0]
              /\ mvI' = ShiftNext(mvSrc, mvDst, mvI)
              /\ UNCHANGED <<mvFailed, mvPc, clash>>

\* the loop is over: shutil.move(tmp_path, str(destinationRow)), which moves
\* _tmp_move into the target when that exists
MovePlace ==
  /\ mvPc = "shift"
  /\ ~ShiftLeft(mvSrc, mvDst, mvI)
  /\ mvPc' = "idle"
  /\ tmp' = 0
  /\ dirs' = IF dirs[mvDst] = 0 THEN [dirs EXCEPT ![mvDst] = tmp] ELSE dirs
  /\ clash' = (clash \/ dirs[mvDst] # 0)
  /\ UNCHANGED <<mvSrc, mvDst, mvI, mvRow, mvValid, mvFailed, before, nMoves>>
  /\ UNCHANGED <<passThrough, filterVars, loopVars, lifeVars, raceVars>>

\* ---------------------------------------------------------- specifications
\* the AudioFilter between an audio source and a sink
InitF ==
  passThrough \in BOOLEAN /\ InitFilter /\ NoLoop /\ NoLife /\ IdleCallbacks
  /\ NoDirs
NextF == SourceWrite \/ readData
SpecFilter == InitF /\ [][NextF]_vars

\* the PipeWire bridge, its callbacks run one at a time
InitL ==
  passThrough \in BOOLEAN /\ InitLoop /\ NoFilter /\ NoLife /\ IdleCallbacks
  /\ NoDirs
NextL == on_capture \/ on_playback
SpecLoop == InitL /\ [][NextL]_vars

\* AudioPipeWire with its control and background threads interleaved, beside
\* a VoiceChangerManager receiving start and stop requests
InitT ==
  passThrough \in BOOLEAN /\ InitLoop /\ NoFilter /\ InitLife /\ IdleCallbacks
  /\ NoDirs
NextT ==
  \/ RunSetup \/ RunEnter \/ LoopIterate \/ LoopReturn \/ RunReturn
  \/ ExitBegin \/ ExitQuit \/ ExitJoin
  \/ setRunning
SpecLife == InitT /\ [][NextT]_vars

\* the PipeWire bridge, its callbacks on two threads and their steps interleaved
InitR ==
  passThrough \in BOOLEAN /\ InitLoop /\ NoFilter /\ NoLife /\ IdleCallbacks
  /\ NoDirs
NextR ==
  \/ CapBegin \/ CapCopy \/ CapCount \/ CapFlag
  \/ PbBegin \/ PbCount \/ PbCopy \/ PbClear
SpecRace == InitR /\ [][NextR]_vars

\* WindowAreaWidget.rearrangeVoiceModelDirs called on a model_dir
InitD ==
  passThrough = FALSE /\ NoLoop /\ NoFilter /\ NoLife /\ IdleCallbacks
  /\ InitDirs
NextD == MoveBegin \/ ShiftStep \/ MovePlace
SpecDirs == InitD /\ [][NextD]_vars

\* ------------------------------------------------- AudioFilter: properties
RECURSIVE Flatten(_)
Flatten(ss) == IF ss = <<>> THEN <<>> ELSE Head(ss) \o Flatten(Tail(ss))

BlocksSent == [i \in 1..Len(calls) |-> calls[i].block]

\* the failure descriptors change_voice returned to readData, in order
RECURSIVE Failures(_)
Failures(cs) ==
  IF cs = <<>> THEN <<>>
  ELSE IF Head(cs).err = NoError THEN Failures(Tail(cs))
       ELSE <<Head(cs).err>> \o Failures(Tail(cs))

BlockBytes == blockSamplesCount * SampleWidth

\* bytes of input queued in the filter and its input device
QueuedBytes == SampleWidth * Len(audioInBuff) + Len(devBuf)

\* the bytes of the whole blocks that can be formed from QueuedBytes
WholeBlockBytes == QueuedBytes - (QueuedBytes % BlockBytes)

Available == bytesAvailable(audioInBuff, Len(devBuf), blockSamplesCount)

\* the length of the last output the converter produced before call i
RECURSIVE LastSeenLen(_)
LastSeenLen(i) ==
  IF i <= 1 THEN blockSamplesCount
  ELSE IF calls[i - 1].err = NoError THEN Len(calls[i - 1].audio)
       ELSE LastSeenLen(i - 1)

\* C1: with pass-through (the identity transform), the samples readData has
\* returned so far are exactly the whole blocks of the samples taken in from
\* the input device, in order: nothing added, dropped, duplicated, reordered.
C1_RoundTrip ==
  (passThrough /\ ~FromBufferRaises(emitted)) =>
    FromBuffer(emitted) =
      SubSeq(appended, 1,
             blockSamplesCount * (Len(appended) \div blockSamplesCount))

\* C2: after construction and after every readData, audioInBuff holds
\* strictly fewer than blockSamplesCount samples.
C2_ResidualBelowBlock == Len(audioInBuff) < blockSamplesCount

C2_Witness ==
  /\ Len(calls) >= 2
  /\ Len(audioInBuff) = blockSamplesCount - 1
  /\ produced = MaxInput

\* C3: samples received from the input device = blockSamplesCount * number of
\* transform invocations + residual length.
C3_Conservation ==
  Len(appended) = blockSamplesCount * Len(calls) + Len(audioInBuff)

\* C4: every block handed to change_voice has exactly blockSamplesCount
\* samples, they are the oldest samples of the residual buffer at that moment,
\* and the blocks followed by the residual are the buffer's samples in the order
\* they arrived.
C4_BlocksFifo ==
  /\ \A i \in 1..Len(calls) :
       /\ Len(calls[i].block) = blockSamplesCount
       /\ calls[i].block = SubSeq(calls[i].before, 1, blockSamplesCount)
  /\ Flatten(BlocksSent) \o audioInBuff = ctorBuff \o appended

C4_Witness ==
  /\ Len(calls) >= 2
  /\ calls[1].block # calls[2].block
  /\ audioInBuff # <<>>

\* C5: bytesAvailable() is a multiple of the block byte width and at most the
\* bytes of the whole blocks queued.
C5_AvailableBounded ==
  /\ Available % BlockBytes = 0
  /\ Available >= 0
  /\ Available <= WholeBlockBytes

C5_Witness == Available > 0 /\ Available < WholeBlockBytes

\* C6: bytesAvailable() is exactly the bytes of the whole blocks queued.
C6_AvailableExact == Available = WholeBlockBytes

C8_FailureForwarded == reported = Failures(calls)

\* -------------------------------------------------- the bridge: properties
\* C9: a playback entered with have_data false leaves every sample of the
\* requested output block zero.
C9_UnderrunIsSilence ==
  (played.valid /\ ~played.had) => played.out = Zeros(played.req)

C9_Witness ==
  /\ played.valid /\ ~played.had
  /\ nPlaybacks >= 2
  /\ have_data = 0
  /\ \E i \in 1..buffer_size : buffer[i] # Zero
  /\ \A i \in 1..played.req : played.before[i] # Zero

\* C10: when the transform returned L < N samples, the playback that consumes
\* the block outputs those L samples followed by N - L zeros.
C10_ShortOutputPadded ==
  (/\ played.valid /\ played.had
   /\ played.req = loopBlock
   /\ Len(played.src) < loopBlock)
  => played.out = played.src \o Zeros(loopBlock - Len(played.src))

\* C11: after a completed on_capture (and until a playback reads the slot)
\* the slot holds the first min(len(out_wav), buffer_size) samples of the
\* transform's output, n_samples is that count and have_data is set.
C11_SlotHoldsOutput ==
  unconsumed > 0 =>
    LET k == Min(Len(lastOut.audio), buffer_size)
    IN  /\ n_samples = k
        /\ SubSeq(buffer, 1, k) = SubSeq(lastOut.audio, 1, k)
        /\ have_data # 0

\* C12: the slot has room for two native blocks; on_capture stores at most
\* buffer_size samples and records at most buffer_size, whatever the length
\* of the transform's output; on_playback reads no more samples from the slot
\* than the recorded count.
C12_SlotBounds ==
  /\ buffer_size >= 2 * loopBlock
  /\ Len(buffer) = buffer_size
  /\ Len(slotWrite) <= buffer_size
  /\ n_samples <= buffer_size
  /\ (played.valid /\ played.had) => played.n <= played.count

C12_Witness ==
  /\ played.valid /\ played.had
  /\ Len(played.src) > buffer_size
  /\ played.req > played.count

\* C13: have_data is set exactly when an on_capture has stored a block that
\* no on_playback has read yet.
C13_FlagIffPending == (have_data # 0) <=> (unconsumed > 0)

C13_Witness ==
  /\ played.valid /\ played.had
  /\ have_data = 0
  /\ nCaptures >= 1

\* C14: a playback that finds a block outputs the block stored by the most
\* recent capture, however many captures ran since the last playback; a
\* playback with no capture since the last block was read outputs silence.
C14_LatestBlockOnly ==
  played.valid =>
    /\ played.had =>
         SubSeq(played.out, 1, played.n) = SubSeq(played.slot, 1, played.n)
    /\ played.had <=> (played.caps > 0)
    /\ played.caps = 0 => played.out = Zeros(played.req)

C14_Witness ==
  /\ played.valid /\ played.had
  /\ played.caps >= 2
  /\ played.req = loopBlock
  /\ Len(played.src) >= loopBlock
  /\ played.out = SubSeq(played.src, 1, loopBlock)
  /\ \A i \in 1..loopBlock : played.out[i] # Zero

\* C18: once on_capture has been handed a sample count other than the block
\* size, no further capture or playback callback is processed.
C18_MismatchEndsLoop ==
  [][asserted => (nCaptures' = nCaptures /\ nPlaybacks' = nPlaybacks)]_vars

\* C19: when change_voice reported a failure for the captured block, the
\* playback that reads that block outputs only zeros.
C19_FailureIsSilence ==
  (/\ played.valid /\ played.had
   /\ played.err # NoError
   /\ played.req = loopBlock)
  => played.out = Zeros(played.req)

\* ------------------------------------ AudioPipeWire, setRunning: properties
\* C15: once exit() has returned the background thread has ended (so no
\* callback runs afterwards), and the slot exists whenever the thread is at
\* a place from which a callback can still run.
C15_ExitWaitsForThread ==
  /\ exitsDone >= 1 => (bg = "done" /\ ~running)
  /\ (ctl = "ready" /\ ~loopHandle) => bg = "done"
  /\ ~slotLive => bg \in {"starting", "done"}

C15_Witness ==
  /\ exitsDone >= 1
  /\ joinCalls = 1
  /\ nCaptures + nPlaybacks >= 1

\* C16: exit() called right after construction returns in every
\* interleaving: whenever it waits in join while the thread is inside the
\* native run loop, the loop has been told to stop.
C16_ExitReturns == (ctl = "join" /\ bg = "looping") => ~running

\* C17: a setRunning that asks for the state the manager is in changes
\* nothing (audio exists iff the last request was running=True, and an Audio
\* is constructed only by a start that follows a stop); a second exit()
\* neither signals quit nor joins again.
C17_Idempotent ==
  /\ (audio # 0) <=> lastRequest
  /\ audioMade = starts
  /\ audio # 0 => audio = audioMade
  /\ quitCalls <= 1
  /\ joinCalls <= 1
  /\ exitsDone >= 1 => (quitCalls = 1 /\ joinCalls = 1)

C17_Witness ==
  /\ exitsDone = 2
  /\ nRequests = 2
  /\ lastRequest
  /\ starts = 1

\* C20: every change_voice call returns its 4-tuple and lets no exception of
\* the converter out; the failure element is None exactly when the converter
\* returned or pass-through is on, and otherwise a (kind, detail) pair whose
\* kind is one of the three kinds.
C20_FailureContained ==
  \A i \in 1..Len(calls) :
    LET r  == calls[i].ret
        oc == calls[i].oc
    IN  /\ ~r.escaped
        /\ Len(r.perf) = Len(NoTimings)
        /\ (r.err = NoError) <=> (passThrough \/ oc.kind = "ok")
        /\ r.err # NoError => (Len(r.err) = 2 /\ r.err[1] \in ErrorKinds)

C20_Witness ==
  /\ \E i \in 1..Len(calls) :
       calls[i].oc.kind = "RuntimeError" /\ calls[i].ret.err[1] = "Exception"
  /\ \E i \in 1..Len(calls) : calls[i].oc.kind = "ok"

\* ------------------------------------------- AudioFilter: further properties
\* C22: within one readData(maxlen) no block is extracted and transformed
\* once the bytes accumulated for return have reached maxlen.
C22_StopsAtMaxlen ==
  \A i \in 1..Len(calls) : ~calls[i].full

\* C27: readData completes for every byte count the device delivers, and
\* every byte taken from the device has become a sample of audioInBuff.
C27_NoByteLost ==
  /\ ~raised
  /\ Len(taken) = SampleWidth * Len(appended)

\* ---------------------------------------- PipeWire bridge: further properties
\* C24: an on_capture that is handed a sample count other than
\* blockSamplesCount does not call the transform and leaves the buffer,
\* n_samples and have_data as they were.
C24_MismatchLeavesSlot ==
  [][(nCaptures' = nCaptures + 1 /\ lastDelivered' # loopBlock) =>
       /\ nTransforms' = nTransforms
       /\ buffer' = buffer
       /\ n_samples' = n_samples
       /\ have_data' = have_data]_vars

C24_Witness ==
  /\ asserted
  /\ lastDelivered # loopBlock
  /\ have_data = SetFlag
  /\ nTransforms >= 1

\* C26: on_capture reads at most as many samples from the transform's output
\* as that output contains.
C26_CopyWithinOutput == Len(slotWrite) <= Len(lastOut.audio)

\* C23: on_playback never changes the buffer or n_samples and changes
\* have_data only from set to clear; on_capture never changes have_data from
\* set to clear; no step of run(), exit() or setRunning outside the two
\* callbacks changes the slot.
C23_SlotOwnership ==
  [][/\ nPlaybacks' # nPlaybacks =>
          /\ buffer' = buffer
          /\ n_samples' = n_samples
          /\ have_data' # have_data => (have_data # 0 /\ have_data' = 0)
     /\ nCaptures' # nCaptures => ~(have_data # 0 /\ have_data' = 0)
     /\ (nPlaybacks' = nPlaybacks /\ nCaptures' = nCaptures) =>
          /\ buffer' = buffer
          /\ n_samples' = n_samples
          /\ have_data' = have_data]_vars

C23_Witness ==
  /\ played.had
  /\ have_data = ClearedFlag
  /\ n_samples = loopBlock
  /\ nRequests >= 1
  /\ exitsDone >= 1

\* -------------------------------------- callbacks on two threads: properties
\* C21: with the steps of on_capture and on_playback interleaved, every block
\* on_playback has copied out with have_data seen set consists of samples of
\* one on_capture, the one whose count it read.
C21_BlockOfOneCapture ==
  (pbHad /\ pbPc \in {"clear", "idle"}) =>
    \A i \in 1..pbN : outTag[i] = pbCountTag

\* C25: when on_capture set have_data while on_playback was consuming the
\* previous block, have_data is still set once both callbacks have finished.
C25_PublishedBlockKept ==
  (published /\ capPc = "idle" /\ pbPc = "idle") => have_data # ClearedFlag

\* ------------------------------------- rearrangeVoiceModelDirs: properties
\* the contents of the listed directories in the order of their names, the
\* directory with content c left out
RECURSIVE OthersFrom(_, _, _)
OthersFrom(fs, k, c) ==
  IF k > MaxDirs THEN <<>>
  ELSE (IF fs[k] # 0 /\ fs[k] # c THEN <<fs[k]>> ELSE <<>>)
       \o OthersFrom(fs, k + 1, c)

\* C28: a valid single-card move on directories 0..total-1 leaves the names
\* 0..total-1, the moved content at the destination index (destinationRow,
\* less one when it was greater than sourceStart), the others in their
\* relative order, and no _tmp_move; no rename or move ever targets an
\* existing name.
C28_MovePermutes ==
  /\ ~clash
  /\ (mvPc = "idle" /\ mvValid) =>
       /\ ~mvFailed
       /\ tmp = 0
       /\ Listed(dirs) = 0..(Total(before) - 1)
       /\ dirs[IF mvRow > mvSrc THEN mvRow - 1 ELSE mvRow] = before[mvSrc]
       /\ OthersFrom(dirs, 0, before[mvSrc]) =
            OthersFrom(before, 0, before[mvSrc])

C28_Witness ==
  /\ mvPc = "idle"
  /\ mvValid
  /\ nMoves = MaxMoves
  /\ mvRow > mvSrc + 1
  /\ Total(dirs) = MaxDirs
  /\ before # [k \in Names |-> IF k < MaxDirs THEN k + 1 ELSE 0]
  /\ dirs # before

====
